---- MODULE Spec2Model ----
(***************************************************************************)
(* Model of the reconciliation engine of mx-bulk-vlan-addressing           *)
(* (src/main.py): format validation of the spreadsheet rows, reconciliation *)
(* against the live networks and VLANs of the organization, and the three  *)
(* commands that change the remote state (create-networks, create-vlans,   *)
(* apply-from-excel).                                                      *)
(*                                                                         *)
(* A spreadsheet cell is a record [t, s, n]: a Python str (t = "str", s its *)
(* characters), an int (t = "int", n its value), a float (t = "float", n   *)
(* its value in tenths) or a float NaN (t = "nan").  A text is a sequence  *)
(* of one-character strings.  A subnet or address cell is the text         *)
(* "a.b.c.d/p" or "a.b.c.d" kept as its numbers, [t, o, p], or another     *)
(* text (t = "text").                                                      *)
(***************************************************************************)
EXTENDS Integers, Sequences, FiniteSets, TLC

VARIABLES
    run,            \* which invocation of the tool this is
    prev,           \* what the invocation before left behind
    start,          \* remote: the networks and VLANs when this invocation began
    cmd,            \* args.command
    loaded,         \* whether load_from_excel returned a DataFrame
    columns,        \* excel_data.columns
    excel_data,     \* the rows of the DataFrame
    live_networks,  \* remote: the organization's networks, [id, name]
    live_vlans,     \* remote: network id -> set of VLANs [id, name]
    list_fails,     \* remote: getOrganizationNetworks raises
    fetch_fails,    \* remote: ids whose getNetworkApplianceVlans raises
    pc,             \* position in main
    row_idx,        \* validate_excel_format: loop index
    errors,         \* validate_excel_format: errors
    is_valid,       \* validate_excel_format: result
    vr,             \* validate_excel_data: its locals and result
    groups,         \* groupby keys still to process
    res,            \* validate_excel: success, actions_needed
    work,           \* items still to process in the running batch
    tally,          \* counters of the running batch
    updated_networks, \* create_networks: updated_networks
    pending,        \* create_networks: network returned by create, not yet enabled
    calls,          \* remote calls that change state, in order, with outcome
    fetched,        \* ids passed to getNetworkApplianceVlans, in order
    exit_status     \* process exit status (-1 while running)

vars == <<run, prev, start, cmd, loaded, columns, excel_data, live_networks, live_vlans,
          list_fails, fetch_fails, pc, row_idx, errors, is_valid, vr, groups,
          res, work, tally, updated_networks, pending, calls, fetched,
          exit_status>>

----------------------------------------------------------------------------
(* Bounds of the model *)

MaxRows == 2
MaxFormatRows == 2
MaxRuns == 2

(* Program constants *)

MinVlanId == 1
MaxVlanId == 4094
RowOffset == 2

----------------------------------------------------------------------------
(* Texts and Python's conversions *)

Digits == <<"0", "1", "2", "3", "4", "5", "6", "7", "8", "9">>

DigitSet == {Digits[i] : i \in 1..10}

Letters ==
    {"a", "b", "c", "d", "e", "f", "g", "h", "i", "j", "k", "l", "m",
     "n", "o", "p", "q", "r", "s", "t", "u", "v", "w", "x", "y", "z",
     "A", "B", "C", "D", "E", "F", "G", "H", "I", "J", "K", "L", "M",
     "N", "O", "P", "Q", "R", "S", "T", "U", "V", "W", "X", "Y", "Z"}

IsSpace(c) == c \in {" "}

\* The characters of the model in code-point order
CharOrder ==
    <<" ", "!", "#", "+", "-", ".", "/",
      "0", "1", "2", "3", "4", "5", "6", "7", "8", "9", "@",
      "A", "B", "C", "D", "E", "F", "G", "H", "I", "J", "K", "L", "M",
      "N", "O", "P", "Q", "R", "S", "T", "U", "V", "W", "X", "Y", "Z", "_",
      "a", "b", "c", "d", "e", "f", "g", "h", "i", "j", "k", "l", "m",
      "n", "o", "p", "q", "r", "s", "t", "u", "v", "w", "x", "y", "z">>

Ord(c) == CHOOSE i \in 1..Len(CharOrder) : CharOrder[i] = c

RECURSIVE TextLess(_, _)
\* Python's str < str
TextLess(a, b) ==
    IF b = <<>> THEN FALSE
    ELSE IF a = <<>> THEN TRUE
    ELSE IF Head(a) = Head(b) THEN TextLess(Tail(a), Tail(b))
    ELSE Ord(Head(a)) < Ord(Head(b))

RECURSIVE LStrip(_)
LStrip(s) == IF s # <<>> /\ IsSpace(Head(s)) THEN LStrip(Tail(s)) ELSE s

RECURSIVE RStrip(_)
RStrip(s) ==
    IF s # <<>> /\ IsSpace(s[Len(s)]) THEN RStrip(SubSeq(s, 1, Len(s) - 1)) ELSE s

\* str.strip()
Strip(s) == RStrip(LStrip(s))

RECURSIVE NatToText(_)
NatToText(n) ==
    IF n < 10 THEN <<Digits[n + 1]>>
    ELSE NatToText(n \div 10) \o <<Digits[(n % 10) + 1]>>

IntToText(n) == IF n < 0 THEN <<"-">> \o NatToText(0 - n) ELSE NatToText(n)

DigitValue(c) == (CHOOSE i \in 1..10 : Digits[i] = c) - 1

RECURSIVE TextToNat(_)
TextToNat(s) ==
    IF s = <<>> THEN 0
    ELSE 10 * TextToNat(SubSeq(s, 1, Len(s) - 1)) + DigitValue(s[Len(s)])

AllDigits(s) == s # <<>> /\ \A i \in 1..Len(s) : s[i] \in DigitSet

StrCell(s) == [t |-> "str", s |-> s, n |-> 0]
IntCell(n) == [t |-> "int", s |-> <<>>, n |-> n]
FloatCell(tenths) == [t |-> "float", s |-> <<>>, n |-> tenths]
NaNCell == [t |-> "nan", s |-> <<>>, n |-> 0]

\* str(x)
PyStr(c) ==
    CASE c.t = "str" -> c.s
      [] c.t = "int" -> IntToText(c.n)
      [] c.t = "float" ->
            (IF c.n < 0 THEN <<"-">> ELSE <<>>)
            \o NatToText((IF c.n < 0 THEN 0 - c.n ELSE c.n) \div 10)
            \o <<".">>
            \o NatToText((IF c.n < 0 THEN 0 - c.n ELSE c.n) % 10)
      [] OTHER -> <<"n", "a", "n">>

\* int(text): surrounding whitespace and one sign are accepted
IntOfText(s) ==
    LET b == Strip(s)
        signed == b # <<>> /\ Head(b) \in {"+", "-"}
        d == IF signed THEN Tail(b) ELSE b
    IN  IF AllDigits(d)
        THEN [ok |-> TRUE,
              v |-> IF signed /\ Head(b) = "-" THEN 0 - TextToNat(d) ELSE TextToNat(d)]
        ELSE [ok |-> FALSE, v |-> 0]

\* A float truncated toward zero, as int(x) does
Trunc(tenths) == IF tenths < 0 THEN 0 - ((0 - tenths) \div 10) ELSE tenths \div 10

\* int(x): ok is FALSE where Python raises ValueError or TypeError
PyInt(c) ==
    CASE c.t = "str" -> IntOfText(c.s)
      [] c.t = "int" -> [ok |-> TRUE, v |-> c.n]
      [] c.t = "float" -> [ok |-> TRUE, v |-> Trunc(c.n)]
      [] OTHER -> [ok |-> FALSE, v |-> 0]

\* pd.isna(x)
IsNa(c) == c.t = "nan"

\* name_pattern.match(text)
NamePatternMatch(s) ==
    /\ s # <<>>
    /\ \A i \in 1..Len(s) :
           \/ s[i] \in Letters
           \/ s[i] \in DigitSet
           \/ IsSpace(s[i])
           \/ s[i] \in {".", "@", "#", "_", "-"}

----------------------------------------------------------------------------
(* ipaddress *)

AddrCell(o) == [t |-> "addr", o |-> o, p |-> 32]
CidrCell(o, p) == [t |-> "cidr", o |-> o, p |-> p]
TextCell == [t |-> "text", o |-> <<0, 0, 0, 0>>, p |-> 0]

OctetsOk(o) == \A i \in 1..4 : o[i] >= 0 /\ o[i] <= 255

\* The bits of octet i (1..4) that a /p netmask clears
HostBits(i, p) ==
    IF 8 * i - p <= 0 THEN 0 ELSE IF 8 * i - p >= 8 THEN 8 ELSE 8 * i - p

\* address & netmask, octet by octet
AndNetmask(o, p) == [i \in 1..4 |-> o[i] - (o[i] % (2 ^ HostBits(i, p)))]

\* ipaddress.IPv4Network(text, strict=False): ok is FALSE where it raises
IPv4Network(c) ==
    IF c.t \in {"cidr", "addr"} /\ OctetsOk(c.o) /\ c.p >= 0 /\ c.p <= 32
    THEN [ok |-> TRUE, network_address |-> AndNetmask(c.o, c.p), prefixlen |-> c.p]
    ELSE [ok |-> FALSE, network_address |-> <<0, 0, 0, 0>>, prefixlen |-> 0]

\* ipaddress.IPv4Address(text): ok is FALSE where it raises
IPv4Address(c) ==
    IF c.t = "addr" /\ OctetsOk(c.o)
    THEN [ok |-> TRUE, ip |-> c.o]
    ELSE [ok |-> FALSE, ip |-> <<0, 0, 0, 0>>]

\* Variant: only the host addresses of the network are members
InHosts(ip, net) ==
    /\ AndNetmask(ip, net.prefixlen) = net.network_address
    /\ ip # net.network_address
    /\ \E i \in 1..4 : ip[i] # net.network_address[i] + 2 ^ HostBits(i, net.prefixlen) - 1

\* address in network
InNetwork(ip, net) == AndNetmask(ip, net.prefixlen) = net.network_address

----------------------------------------------------------------------------
(* validate_excel_format *)

required_columns == <<"Network Name", "VLAN ID", "VLAN Name", "Subnet", "MX IP">>

RECURSIVE SelectSeqBy(_, _)
SelectSeqBy(s, keep) ==
    IF s = <<>> THEN <<>>
    ELSE (IF Head(s) \in keep THEN <<Head(s)>> ELSE <<>>) \o SelectSeqBy(Tail(s), keep)

missing_columns(cols) ==
    SelectSeqBy(required_columns, {required_columns[i] : i \in 1..5} \ cols)

Err(row_num, kind) == [row |-> row_num, kind |-> kind, cols |-> <<>>]

NameErrors(cell, row_num, empty, invalid) ==
    IF Strip(PyStr(cell)) = <<>> \/ IsNa(cell) THEN <<Err(row_num, empty)>>
    ELSE IF ~NamePatternMatch(Strip(PyStr(cell))) THEN <<Err(row_num, invalid)>>
    ELSE <<>>

VlanIdErrors(cell, row_num) ==
    IF PyInt(cell).ok
    THEN IF PyInt(cell).v < MinVlanId \/ PyInt(cell).v > MaxVlanId
         THEN <<Err(row_num, "VlanIdOutOfRange")>>
         ELSE <<>>
    ELSE <<Err(row_num, "VlanIdNotInteger")>>

\* The subnet check, and the MX IP check it skips when the subnet is invalid
AddressErrors(subnet, mx_ip, row_num) ==
    IF ~IPv4Network(subnet).ok THEN <<Err(row_num, "SubnetInvalid")>>
    ELSE IF ~IPv4Address(mx_ip).ok THEN <<Err(row_num, "MxIpInvalid")>>
    ELSE IF ~InNetwork(IPv4Address(mx_ip).ip, IPv4Network(subnet))
         THEN <<Err(row_num, "MxIpNotInSubnet")>>
    ELSE <<>>

\* The errors one pass of the loop body appends
RowErrors(row, row_num) ==
    NameErrors(row.net, row_num, "NetworkNameEmpty", "NetworkNameInvalid")
    \o VlanIdErrors(row.vlan_id, row_num)
    \o NameErrors(row.vlan_name, row_num, "VlanNameEmpty", "VlanNameInvalid")
    \o AddressErrors(row.subnet, row.mx_ip, row_num)

----------------------------------------------------------------------------
(* The inputs of a run *)

Commands == {"validate-excel", "apply-from-excel", "create-networks", "create-vlans"}

AllColumns == {required_columns[i] : i \in 1..5}

HQ == <<"H", "Q">>
BR == <<"B", "R">>
hq == <<"h", "q">>
Data == <<"D", "a", "t", "a">>
Voice == <<"V", "o", "i", "c", "e">>

Row(net, vlan_id, vlan_name, subnet, mx_ip) ==
    [net |-> net, vlan_id |-> vlan_id, vlan_name |-> vlan_name,
     subnet |-> subnet, mx_ip |-> mx_ip]

Subnet24 == CidrCell(<<10, 0, 0, 0>>, 24)
Gateway1 == AddrCell(<<10, 0, 0, 1>>)

GoodRow(net, vlan_id, vlan_name) ==
    Row(StrCell(net), vlan_id, StrCell(vlan_name), Subnet24, Gateway1)

\* pd.read_excel gives a numeric column one dtype: int64, or float64 as soon
\* as one cell is fractional or empty; the cells keep their own types only
\* in a column that holds a text
WellTyped(doc) ==
    LET ts == {doc[i].vlan_id.t : i \in 1..Len(doc)}
    IN  "str" \in ts \/ ts \subseteq {"int"} \/ ts \subseteq {"float", "nan"}

SeqsUpTo(S, n) == UNION {[1..k -> S] : k \in 0..n}

Docs(rows, n) == {d \in SeqsUpTo(rows, n) : WellTyped(d)}

PipelineRows ==
    {GoodRow(n, IntCell(v), Data) : n \in {HQ, BR}, v \in {10, 20}}
    \cup {GoodRow(hq, IntCell(10), Data),
          GoodRow(HQ, IntCell(10), Voice),
          GoodRow(HQ, FloatCell(105), Data),
          Row(StrCell(HQ), IntCell(10), StrCell(Data), Subnet24,
              AddrCell(<<10, 0, 1, 1>>))}

LiveNet(id, name) == [id |-> id, name |-> name]
LiveVlan(id, name) == [id |-> id, name |-> name]

\* The live states of the organization: its networks and their VLANs
LiveStates ==
    {[networks |-> ns, vlans |-> [i \in {1, 2} |-> IF i = 1 THEN v1 ELSE v2]] :
        ns \in {<<>>, <<LiveNet(1, HQ)>>, <<LiveNet(1, HQ), LiveNet(2, BR)>>},
        v1 \in {{}, {LiveVlan(IntCell(10), Voice)}},
        v2 \in {{}, {LiveVlan(IntCell(10), Data)}}}

LiveIds(ns) == {ns[i].id : i \in 1..Len(ns)}

Input(c, l, cols, doc, live, lf, ff) ==
    [cmd |-> c, loaded |-> l, columns |-> cols, excel_data |-> doc,
     live |-> live, list_fails |-> lf, fetch_fails |-> ff]

DefaultLive ==
    [networks |-> <<LiveNet(1, HQ)>>,
     vlans |-> [i \in {1, 2} |-> IF i = 1 THEN {LiveVlan(IntCell(10), Voice)} ELSE {}]]

\* The remote failures a live state is combined with
Failures(live) ==
    {[list_fails |-> lf, fetch_fails |-> ff] :
        lf \in BOOLEAN, ff \in SUBSET LiveIds(live.networks)} \ 
    {[list_fails |-> TRUE, fetch_fails |-> ff] :
        ff \in (SUBSET LiveIds(live.networks)) \ {{}}}

Remotes ==
    UNION {{[live |-> l, fails |-> f] : f \in Failures(l)} :
              l \in {x \in LiveStates :
                        \A i \in {1, 2} : i \notin LiveIds(x.networks) => x.vlans[i] = {}}}

\* Documents that load, with every live state and remote failure
PipelineInputs ==
    {Input(c, TRUE, AllColumns, d, r.live, r.fails.list_fails, r.fails.fetch_fails) :
        c \in Commands, d \in Docs(PipelineRows, MaxRows), r \in Remotes}

\* Documents that do not load or lack a column
SchemaInputs ==
    {Input(c, FALSE, {}, <<>>, DefaultLive, FALSE, {}) : c \in Commands}
    \cup {Input(c, TRUE, cols, d, DefaultLive, FALSE, {}) :
            c \in Commands,
            cols \in {AllColumns \ {"MX IP"}, AllColumns \ {"Network Name", "Subnet"}},
            d \in Docs(PipelineRows, 1)}

\* Rows that differ from a valid row in one field
FormatRows ==
    {GoodRow(HQ, IntCell(10), Data)}
    \cup {Row(n, IntCell(10), StrCell(Data), Subnet24, Gateway1) :
            n \in {StrCell(<<>>), StrCell(<<" ", "H", "Q", " ">>), StrCell(<<"H", "!">>),
                   NaNCell, StrCell(BR)}}
    \cup {Row(StrCell(HQ), IntCell(10), n, Subnet24, Gateway1) :
            n \in {NaNCell, StrCell(<<"V", "!">>)}}
    \cup {GoodRow(HQ, v, Data) :
            v \in {IntCell(0), IntCell(1), IntCell(20), IntCell(4094), IntCell(4095),
                   FloatCell(100), FloatCell(105), FloatCell(5), FloatCell(40945),
                   FloatCell(40950), NaNCell,
                   StrCell(<<"1", "0">>), StrCell(<<"a">>), StrCell(<<"1", "0", ".", "5">>),
                   StrCell(<<" ", "7", " ">>)}}
    \cup {Row(StrCell(HQ), IntCell(10), StrCell(Data), Subnet24, AddrCell(<<a, b, c, d>>)) :
            a \in {10}, b \in {0}, c \in {0, 1}, d \in {0, 255}}
    \cup {Row(StrCell(HQ), IntCell(10), StrCell(Data), Subnet24,
              AddrCell(<<9, 255, 255, 255>>)),
          Row(StrCell(HQ), IntCell(10), StrCell(Data), CidrCell(<<10, 0, 0, 5>>, 24),
              Gateway1)}
    \cup {Row(StrCell(HQ), IntCell(10), StrCell(Data), CidrCell(<<10, 0, 0, 5>>, 31),
              AddrCell(<<10, 0, 0, d>>)) : d \in 3..6}
    \cup {Row(StrCell(HQ), IntCell(10), StrCell(Data), s, AddrCell(<<10, 0, 0, d>>)) :
            s \in {CidrCell(<<10, 0, 0, 7>>, 32), AddrCell(<<10, 0, 0, 7>>)}, d \in 6..8}
    \cup {Row(StrCell(HQ), IntCell(10), StrCell(Data), s, Gateway1) :
            s \in {CidrCell(<<10, 0, 0, 0>>, 33), CidrCell(<<10, 0, 256, 0>>, 24), TextCell}}
    \cup {Row(StrCell(HQ), IntCell(10), StrCell(Data), Subnet24, m) :
            m \in {TextCell, AddrCell(<<10, 0, 0, 256>>), CidrCell(<<10, 0, 0, 1>>, 24)}}
    \cup {Row(StrCell(HQ), IntCell(10), StrCell(Data), TextCell, TextCell),
          Row(StrCell(<<"H", "!">>), IntCell(0), NaNCell, Subnet24,
              AddrCell(<<10, 0, 1, 1>>))}

\* The documents of the format checks: any command on one row, validate-excel
\* on longer documents
FormatInputs ==
    {Input(c, TRUE, AllColumns, d, DefaultLive, FALSE, {}) :
        c \in Commands, d \in Docs(FormatRows, 1)}
    \cup {Input("validate-excel", TRUE, AllColumns, d, DefaultLive, FALSE, {}) :
            d \in Docs(FormatRows, MaxFormatRows)}

EmptyDict == [k \in {} |-> 0]

NoResults ==
    [listed |-> FALSE, network_map |-> EmptyDict, excel_networks |-> <<>>,
     networks |-> EmptyDict, missing_networks |-> <<>>, vlan_validation |-> <<>>,
     valid_vlans |-> 0, invalid_vlans |-> 0,
     summary |-> [networks_found |-> 0, networks_missing |-> 0, vlans_valid |-> 0,
                  vlans_invalid |-> 0, total_networks |-> 0, total_vlans |-> 0]]

NoTally ==
    [success_count |-> 0, error_count |-> 0, created |-> 0, failed |-> 0,
     total |-> 0, returned |-> FALSE]

NoRun ==
    [cmd |-> "", vr |-> NoResults,
     res |-> [success |-> FALSE, actions_needed |-> <<>>, reconciled |-> FALSE],
     start |-> [live_networks |-> <<>>, live_vlans |-> EmptyDict],
     live_networks |-> <<>>, live_vlans |-> EmptyDict, fetch_fails |-> {},
     calls |-> <<>>, updated_networks |-> EmptyDict]

InitFrom(inputs) ==
    \E in \in inputs :
        /\ run = 1
        /\ prev = NoRun
        /\ start = [live_networks |-> in.live.networks, live_vlans |-> in.live.vlans]
        /\ cmd = in.cmd
        /\ loaded = in.loaded
        /\ columns = in.columns
        /\ excel_data = in.excel_data
        /\ live_networks = in.live.networks
        /\ live_vlans = in.live.vlans
        /\ list_fails = in.list_fails
        /\ fetch_fails = in.fetch_fails
        /\ pc = "load"
        /\ row_idx = 0
        /\ errors = <<>>
        /\ is_valid = FALSE
        /\ vr = NoResults
        /\ groups = <<>>
        /\ res = [success |-> FALSE, actions_needed |-> <<>>, reconciled |-> FALSE]
        /\ work = <<>>
        /\ tally = NoTally
        /\ updated_networks = EmptyDict
        /\ pending = <<>>
        /\ calls = <<>>
        /\ fetched = <<>>
        /\ exit_status = -1

Init == InitFrom(PipelineInputs \cup SchemaInputs)

----------------------------------------------------------------------------
(* validate_excel: load and format validation *)

Exit(status) ==
    /\ pc' = "done"
    /\ exit_status' = status

\* Step 1 of validate_excel; main has accepted the organization id before
LoadExcel ==
    /\ pc = "load"
    /\ IF loaded
       THEN pc' = "columns" /\ res' = res
       ELSE /\ pc' = "main"
            /\ res' = [success |-> FALSE, actions_needed |-> <<"fix_excel_file">>,
                       reconciled |-> FALSE]
    /\ UNCHANGED <<run, prev, start, cmd, loaded, columns, excel_data, live_networks, live_vlans,
                   list_fails, fetch_fails, row_idx, errors, is_valid, vr, groups,
                   work, tally, updated_networks, pending, calls, fetched,
                   exit_status>>

\* Variant: the rows are checked whatever the columns
AlwaysRows(missing) == "rows"

\* Where validate_excel_format goes after the column check
AfterColumns(missing) == IF missing # <<>> THEN "format_return" ELSE "rows"

\* validate_excel_format: the required columns
CheckColumns ==
    /\ pc = "columns"
    /\ pc' = AfterColumns(missing_columns(columns))
    /\ errors' = IF missing_columns(columns) # <<>>
                 THEN <<[row |-> 0, kind |-> "MissingColumns",
                         cols |-> missing_columns(columns)]>>
                 ELSE errors
    /\ is_valid' = FALSE
    /\ UNCHANGED <<run, prev, start, cmd, loaded, columns, excel_data, live_networks, live_vlans,
                   list_fails, fetch_fails, row_idx, vr, groups, res, work, tally,
                   updated_networks, pending, calls, fetched, exit_status>>

\* Variant: the rows after the first error are not checked
ErrorsUntilFirst(errs, row, row_num) ==
    IF errs # <<>> THEN errs ELSE errs \o RowErrors(row, row_num)

\* errors after the loop body has run on one row
ErrorsAfterRow(errs, row, row_num) == errs \o RowErrors(row, row_num)

\* validate_excel_format: one pass of the loop over the rows
CheckRow ==
    /\ pc = "rows"
    /\ row_idx < Len(excel_data)
    /\ errors' = ErrorsAfterRow(errors, excel_data[row_idx + 1], row_idx + RowOffset)
    /\ row_idx' = row_idx + 1
    /\ UNCHANGED <<run, prev, start, cmd, loaded, columns, excel_data, live_networks, live_vlans,
                   list_fails, fetch_fails, pc, is_valid, vr, groups, res, work,
                   tally, updated_networks, pending, calls, fetched, exit_status>>

\* validate_excel_format: the result after the last row
EndRows ==
    /\ pc = "rows"
    /\ row_idx = Len(excel_data)
    /\ is_valid' = (Len(errors) = 0)
    /\ pc' = "format_return"
    /\ UNCHANGED <<run, prev, start, cmd, loaded, columns, excel_data, live_networks, live_vlans,
                   list_fails, fetch_fails, row_idx, errors, vr, groups, res, work,
                   tally, updated_networks, pending, calls, fetched, exit_status>>

\* Variant: step 3 runs whatever the format verdict
AlwaysReconcile(valid) == "list"

\* validate_excel: step 3 is reached only past the return of step 2
AfterFormat(valid) == IF valid THEN "list" ELSE "main"

\* Step 2 of validate_excel: the format verdict
FormatReturn ==
    /\ pc = "format_return"
    /\ pc' = AfterFormat(is_valid)
    /\ res' = IF is_valid
              THEN res
              ELSE [success |-> FALSE, actions_needed |-> <<"fix_excel_format">>,
                    reconciled |-> FALSE]
    /\ UNCHANGED <<run, prev, start, cmd, loaded, columns, excel_data, live_networks, live_vlans,
                   list_fails, fetch_fails, row_idx, errors, is_valid, vr, groups,
                   work, tally, updated_networks, pending, calls, fetched,
                   exit_status>>

----------------------------------------------------------------------------
(* validate_excel_data *)

\* The value of a Network Name cell, as a dictionary key
Key(cell) == cell.s

\* {net['name']: net['id'] for net in networks}: the last of a name wins
NetworkMap(nets) ==
    [nm \in {nets[i].name : i \in 1..Len(nets)} |->
        nets[CHOOSE i \in 1..Len(nets) :
                /\ nets[i].name = nm
                /\ \A j \in 1..Len(nets) : nets[j].name = nm => j <= i].id]

RECURSIVE UniqueLatestFirst(_)
\* Variant: the distinct values, the latest to appear first
UniqueLatestFirst(names) ==
    IF names = <<>> THEN <<>>
    ELSE LET before == UniqueLatestFirst(SubSeq(names, 1, Len(names) - 1))
             last == names[Len(names)]
         IN  IF \E i \in 1..Len(before) : before[i] = last
             THEN before
             ELSE <<last>> \o before

RECURSIVE Unique(_)
\* Series.unique(): the distinct values in order of first appearance
Unique(names) ==
    IF names = <<>> THEN <<>>
    ELSE LET before == Unique(SubSeq(names, 1, Len(names) - 1))
             last == names[Len(names)]
         IN  IF \E i \in 1..Len(before) : before[i] = last
             THEN before
             ELSE Append(before, last)

NetworkNames(doc) == [i \in 1..Len(doc) |-> Key(doc[i].net)]

RECURSIVE SortTextsPerRun(_)
\* Variant: the keys in the order of a set of texts, which is not the same
\* from one process to the next
SortTextsPerRun(S) ==
    IF S = {} THEN <<>>
    ELSE LET first == IF run = 1
                      THEN CHOOSE a \in S : \A b \in S \ {a} : TextLess(a, b)
                      ELSE CHOOSE a \in S : \A b \in S \ {a} : TextLess(b, a)
         IN  <<first>> \o SortTextsPerRun(S \ {first})

RECURSIVE SortTexts(_)
\* The keys of a groupby, sorted
SortTexts(S) ==
    IF S = {} THEN <<>>
    ELSE LET least == CHOOSE a \in S : \A b \in S \ {a} : TextLess(a, b)
         IN  <<least>> \o SortTexts(S \ {least})

GroupKeys(doc) == SortTexts({Key(doc[i].net) : i \in 1..Len(doc)})

RECURSIVE IndicesFrom(_, _, _)
IndicesFrom(doc, name, i) ==
    IF i > Len(doc) THEN <<>>
    ELSE (IF Key(doc[i].net) = name THEN <<i>> ELSE <<>>) \o IndicesFrom(doc, name, i + 1)

\* The rows of one group of groupby('Network Name'), in document order
GroupRows(doc, name) == IndicesFrom(doc, name, 1)

\* Variant: every live network counts as found
RestrictDictAll(d, keys) == d

RestrictDict(d, keys) == [k \in (DOMAIN d) \cap keys |-> d[k]]

SeqRange(s) == {s[i] : i \in 1..Len(s)}

RECURSIVE FilterNotIn(_, _)
FilterNotIn(s, keys) ==
    IF s = <<>> THEN <<>>
    ELSE (IF Head(s) \in keys THEN <<>> ELSE <<Head(s)>>) \o FilterNotIn(Tail(s), keys)

\* {str(vlan['id']): vlan for vlan in existing_vlans}, its keys
existing_vlan_ids(vlans) == {PyStr(v.id) : v \in vlans}

\* Variant: VLAN ids compared as numbers and not as texts
VlanStatusByNumber(known, fetch_ok, vlan_id, vlans) ==
    IF ~known THEN "network_missing"
    ELSE IF ~fetch_ok THEN "validation_error"
    ELSE IF \E v \in vlans : PyInt(v.id).v = PyInt(vlan_id).v THEN "existing"
    ELSE "missing"

\* Variant: a row of an unknown network is missing, like a VLAN to create
VlanStatusUnknownAsMissing(known, fetch_ok, vlan_id, vlans) ==
    IF ~known THEN "missing"
    ELSE IF ~fetch_ok THEN "validation_error"
    ELSE IF PyStr(vlan_id) \in existing_vlan_ids(vlans) THEN "existing"
    ELSE "missing"

\* The status one desired row gets
VlanStatus(known, fetch_ok, vlan_id, vlans) ==
    IF ~known THEN "network_missing"
    ELSE IF ~fetch_ok THEN "validation_error"
    ELSE IF PyStr(vlan_id) \in existing_vlan_ids(vlans) THEN "existing"
    ELSE "missing"

\* One element of vlan_validation; row is the index of the row it was built from
Entry(name, i, row, status, vlans) ==
    [network_name |-> name,
     vlan_id |-> IF status \in {"existing", "missing"}
                 THEN StrCell(PyStr(row.vlan_id)) ELSE row.vlan_id,
     vlan_name |-> IF status \in {"existing", "missing"}
                   THEN Strip(PyStr(row.vlan_name)) ELSE PyStr(row.vlan_name),
     status |-> status,
     current_names |-> IF status = "existing"
                       THEN {v.name : v \in {w \in vlans : PyStr(w.id) = PyStr(row.vlan_id)}}
                       ELSE {},
     row |-> i]

CountStatus(entries, status) ==
    Cardinality({i \in 1..Len(entries) : entries[i].status = status})

\* The first half of validate_excel_data: the live networks and the name maps
ListNetworks ==
    /\ pc = "list"
    /\ IF list_fails
       THEN /\ vr' = NoResults
            /\ groups' = <<>>
            /\ pc' = "plan"
       ELSE LET network_map == NetworkMap(live_networks)
                excel_networks == Unique(NetworkNames(excel_data))
            IN  /\ vr' = [NoResults EXCEPT
                             !.listed = TRUE,
                             !.network_map = network_map,
                             !.excel_networks = excel_networks,
                             !.networks = RestrictDict(network_map, SeqRange(excel_networks)),
                             !.missing_networks =
                                 FilterNotIn(excel_networks, DOMAIN network_map)]
                /\ groups' = GroupKeys(excel_data)
                /\ pc' = "group"
    /\ UNCHANGED <<run, prev, start, cmd, loaded, columns, excel_data, live_networks, live_vlans,
                   list_fails, fetch_fails, row_idx, errors, is_valid, res, work,
                   tally, updated_networks, pending, calls, fetched, exit_status>>

\* Variant: a failed fetch ends the loop
RemainingGroupsAbort(gs, fetch_failed) == IF fetch_failed THEN <<>> ELSE Tail(gs)

\* The groups still to process after one pass of the loop
RemainingGroups(gs, fetch_failed) == Tail(gs)

\* One pass of the loop over excel_data.groupby('Network Name')
ReconcileGroup ==
    /\ pc = "group"
    /\ groups # <<>>
    /\ LET name == Head(groups)
           idxs == GroupRows(excel_data, name)
           known == name \in DOMAIN vr.networks
           fetch_ok == vr.networks[name] \notin fetch_fails
           vlans == IF known /\ fetch_ok THEN live_vlans[vr.networks[name]] ELSE {}
           entries == [k \in 1..Len(idxs) |->
                          Entry(name, idxs[k], excel_data[idxs[k]],
                                VlanStatus(known, known /\ fetch_ok,
                                           excel_data[idxs[k]].vlan_id, vlans),
                                vlans)]
       IN  /\ vr' = [vr EXCEPT
                        !.vlan_validation = @ \o entries,
                        !.valid_vlans = @ + CountStatus(entries, "existing"),
                        !.invalid_vlans = @ + Len(entries) - CountStatus(entries, "existing")]
           /\ fetched' = IF known THEN Append(fetched, vr.networks[name]) ELSE fetched
           /\ groups' = RemainingGroups(groups, known /\ ~fetch_ok)
    /\ UNCHANGED <<run, prev, start, cmd, loaded, columns, excel_data, live_networks, live_vlans,
                   list_fails, fetch_fails, pc, row_idx, errors, is_valid, res, work,
                   tally, updated_networks, pending, calls, exit_status>>

\* The summary validate_excel_data returns
Summarize ==
    /\ pc = "group"
    /\ groups = <<>>
    /\ vr' = [vr EXCEPT !.summary =
                 [networks_found |-> Cardinality(DOMAIN vr.networks),
                  networks_missing |-> Len(vr.missing_networks),
                  vlans_valid |-> vr.valid_vlans,
                  vlans_invalid |-> vr.invalid_vlans,
                  total_networks |-> Len(vr.excel_networks),
                  total_vlans |-> Len(excel_data)]]
    /\ pc' = "plan"
    /\ UNCHANGED <<run, prev, start, cmd, loaded, columns, excel_data, live_networks, live_vlans,
                   list_fails, fetch_fails, row_idx, errors, is_valid, groups, res,
                   work, tally, updated_networks, pending, calls, fetched,
                   exit_status>>

----------------------------------------------------------------------------
(* validate_excel: the actions needed and the verdict *)

actions_needed(summary, vlan_validation) ==
    (IF summary.networks_missing > 0 THEN <<"create_networks">> ELSE <<>>)
    \o (IF CountStatus(vlan_validation, "missing") > 0 THEN <<"create_vlans">> ELSE <<>>)
    \o (IF CountStatus(vlan_validation, "validation_error") > 0
        THEN <<"fix_validation_errors">> ELSE <<>>)

\* Variant: records of missing networks do not block the verdict
can_proceed_ignoring_missing(summary, vlan_validation) ==
    /\ summary.networks_found > 0
    /\ CountStatus(vlan_validation, "validation_error") = 0

can_proceed(summary, vlan_validation) ==
    /\ summary.networks_found > 0
    /\ CountStatus(vlan_validation, "validation_error") = 0
    /\ CountStatus(vlan_validation, "network_missing") = 0

\* Step 3 of validate_excel, after validate_excel_data has returned
Plan ==
    /\ pc = "plan"
    /\ res' = [success |-> can_proceed(vr.summary, vr.vlan_validation),
               actions_needed |-> actions_needed(vr.summary, vr.vlan_validation),
               reconciled |-> TRUE]
    /\ pc' = "main"
    /\ UNCHANGED <<run, prev, start, cmd, loaded, columns, excel_data, live_networks, live_vlans,
                   list_fails, fetch_fails, row_idx, errors, is_valid, vr, groups,
                   work, tally, updated_networks, pending, calls, fetched,
                   exit_status>>

----------------------------------------------------------------------------
(* The remote service *)

Call(op, net_id, net_name, vlan, vlan_name, row, ok) ==
    [op |-> op, net_id |-> net_id, net_name |-> net_name, vlan |-> vlan,
     vlan_name |-> vlan_name, row |-> row, ok |-> ok]

\* The id the service gives the next network it creates
NewId(nets) == 100 + Len(nets)

VlansOf(vlans, id) == IF id \in DOMAIN vlans THEN vlans[id] ELSE {}

\* The VLANs of the organization after a successful updateNetworkApplianceVlan
AfterUpdateVlan(vlans, id, vlan, vlan_name) ==
    [i \in DOMAIN vlans |->
        IF i = id
        THEN {IF PyStr(v.id) = vlan THEN [v EXCEPT !.name = vlan_name] ELSE v : v \in vlans[i]}
        ELSE vlans[i]]

\* The VLANs of the organization after a successful createNetworkApplianceVlan
AfterCreateVlan(vlans, id, vlan, vlan_name) ==
    [i \in (DOMAIN vlans) \cup {id} |->
        IF i = id
        THEN {v \in VlansOf(vlans, i) : PyStr(v.id) # vlan}
             \cup {LiveVlan(StrCell(vlan), vlan_name)}
        ELSE vlans[i]]

----------------------------------------------------------------------------
(* main: the commands *)

Has(s, x) == \E i \in 1..Len(s) : s[i] = x

RECURSIVE Flatten(_)
Flatten(ss) == IF ss = <<>> THEN <<>> ELSE Head(ss) \o Flatten(Tail(ss))

\* The rows in the order apply_excel_data visits them: group by group
ApplyOrder(doc) ==
    Flatten([k \in 1..Len(GroupKeys(doc)) |-> GroupRows(doc, GroupKeys(doc)[k])])

RECURSIVE FilterStatus(_, _)
FilterStatus(entries, status) ==
    IF entries = <<>> THEN <<>>
    ELSE (IF Head(entries).status = status THEN <<Head(entries)>> ELSE <<>>)
         \o FilterStatus(Tail(entries), status)

RECURSIVE FilterNetwork(_, _)
FilterNetwork(entries, name) ==
    IF entries = <<>> THEN <<>>
    ELSE (IF Head(entries).network_name = name THEN <<Head(entries)>> ELSE <<>>)
         \o FilterNetwork(Tail(entries), name)

\* vlans_by_network, flattened: the networks in order of first appearance
ByNetwork(entries) ==
    LET names == Unique([i \in 1..Len(entries) |-> entries[i].network_name])
    IN  Flatten([k \in 1..Len(names) |-> FilterNetwork(entries, names[k])])

\* The exits every command takes on a document that did not load or validate
FormatExit ==
    /\ ~res.success
    /\ \/ Has(res.actions_needed, "fix_excel_format")
       \/ Has(res.actions_needed, "fix_excel_file")

MainValidate ==
    /\ pc = "main"
    /\ cmd = "validate-excel"
    /\ IF FormatExit THEN Exit(1) ELSE Exit(0)
    /\ UNCHANGED <<run, prev, start, cmd, loaded, columns, excel_data, live_networks, live_vlans,
                   list_fails, fetch_fails, row_idx, errors, is_valid, vr, groups,
                   res, work, tally, updated_networks, pending, calls, fetched>>

\* Variant: validation errors do not stop apply-from-excel
ApplyExitsUnlessErrors(r) ==
    /\ ~r.success
    /\ \/ Has(r.actions_needed, "fix_excel_format")
       \/ Has(r.actions_needed, "fix_excel_file")
       \/ Has(r.actions_needed, "create_networks")

\* apply-from-excel: the exits of main before apply_excel_data
ApplyExits(r) ==
    /\ ~r.success
    /\ \/ Has(r.actions_needed, "fix_excel_format")
       \/ Has(r.actions_needed, "fix_excel_file")
       \/ Has(r.actions_needed, "create_networks")
       \/ Has(r.actions_needed, "fix_validation_errors")

\* apply-from-excel up to the first pass of the loop of apply_excel_data
MainApply ==
    /\ pc = "main"
    /\ cmd = "apply-from-excel"
    /\ IF ApplyExits(res)
       THEN Exit(1) /\ UNCHANGED <<work, tally>>
       ELSE IF DOMAIN vr.networks = {}
       THEN /\ pc' = "finish"
            /\ tally' = [tally EXCEPT !.returned = TRUE]
            /\ UNCHANGED <<work, exit_status>>
       ELSE /\ work' = ApplyOrder(excel_data)
            /\ pc' = IF ApplyOrder(excel_data) = <<>> THEN "finish" ELSE "apply"
            /\ tally' = [tally EXCEPT !.returned = ApplyOrder(excel_data) = <<>>]
            /\ UNCHANGED exit_status
    /\ UNCHANGED <<run, prev, start, cmd, loaded, columns, excel_data, live_networks, live_vlans,
                   list_fails, fetch_fails, row_idx, errors, is_valid, vr, groups,
                   res, updated_networks, pending, calls, fetched>>

\* Variant: a failed item ends the batch
RestAfterAbort(items, ok) == IF ok THEN Tail(items) ELSE <<>>

\* The rest of the batch after one item
RestAfter(items, ok) == Tail(items)

\* apply_excel_data: one row of the loop
ApplyRow ==
    /\ pc = "apply"
    /\ work # <<>>
    /\ LET i == Head(work)
           row == excel_data[i]
           name == Key(row.net)
           vlan == IntToText(PyInt(row.vlan_id).v)
           vlan_name == Strip(PyStr(row.vlan_name))
       IN  IF name \notin DOMAIN vr.networks
           THEN /\ work' = Tail(work)
                /\ pc' = IF Tail(work) = <<>> THEN "finish" ELSE pc
                /\ tally' = [tally EXCEPT !.returned = Tail(work) = <<>>]
                /\ UNCHANGED <<calls, live_vlans>>
           ELSE IF ~PyInt(row.vlan_id).ok
           THEN /\ work' = Tail(work)
                /\ pc' = IF Tail(work) = <<>> THEN "finish" ELSE pc
                /\ tally' = [tally EXCEPT !.error_count = @ + 1,
                                          !.returned = Tail(work) = <<>>]
                /\ UNCHANGED <<calls, live_vlans>>
           ELSE \E ok \in BOOLEAN :
                /\ calls' = Append(calls, Call("update_vlan", vr.networks[name], name,
                                               vlan, vlan_name, i, ok))
                /\ live_vlans' = IF ok
                                 THEN AfterUpdateVlan(live_vlans, vr.networks[name],
                                                      vlan, vlan_name)
                                 ELSE live_vlans
                /\ work' = RestAfter(work, ok)
                /\ pc' = IF RestAfter(work, ok) = <<>> THEN "finish" ELSE pc
                /\ tally' = [tally EXCEPT
                                !.success_count = IF ok THEN @ + 1 ELSE @,
                                !.error_count = IF ok THEN @ ELSE @ + 1,
                                !.returned = RestAfter(work, ok) = <<>>]
    /\ UNCHANGED <<run, prev, start, cmd, loaded, columns, excel_data, live_networks, list_fails,
                   fetch_fails, row_idx, errors, is_valid, vr, groups, res,
                   updated_networks, pending, fetched, exit_status>>

\* create-networks up to the first pass of the loop of create_networks
MainCreateNetworks ==
    /\ pc = "main"
    /\ cmd = "create-networks"
    /\ IF FormatExit
       THEN Exit(1) /\ UNCHANGED <<work, updated_networks, tally>>
       ELSE LET missing_networks == FilterNotIn(Unique(NetworkNames(excel_data)),
                                               DOMAIN vr.networks)
            IN  /\ work' = missing_networks
                /\ updated_networks' = vr.networks
                /\ tally' = [tally EXCEPT !.total = Len(missing_networks),
                                          !.returned = missing_networks = <<>>]
                /\ pc' = IF missing_networks = <<>> THEN "finish" ELSE "create_networks"
                /\ UNCHANGED exit_status
    /\ UNCHANGED <<run, prev, start, cmd, loaded, columns, excel_data, live_networks, live_vlans,
                   list_fails, fetch_fails, row_idx, errors, is_valid, vr, groups,
                   res, pending, calls, fetched>>

\* create_networks: createOrganizationNetwork for the next missing name
CreateNetwork ==
    /\ pc = "create_networks"
    /\ work # <<>>
    /\ pending = <<>>
    /\ \E ok \in BOOLEAN :
        /\ calls' = Append(calls, Call("create_network",
                                       IF ok THEN NewId(live_networks) ELSE 0,
                                       Head(work), <<>>, <<>>, 0, ok))
        /\ IF ok
           THEN /\ live_networks' = Append(live_networks,
                                           LiveNet(NewId(live_networks), Head(work)))
                /\ live_vlans' = [i \in (DOMAIN live_vlans) \cup {NewId(live_networks)} |->
                                     VlansOf(live_vlans, i)]
                /\ pending' = <<LiveNet(NewId(live_networks), Head(work))>>
                /\ UNCHANGED <<work, pc, tally>>
           ELSE /\ work' = RestAfter(work, ok)
                /\ pc' = IF RestAfter(work, ok) = <<>> THEN "finish" ELSE pc
                /\ tally' = [tally EXCEPT !.failed = @ + 1,
                                          !.returned = RestAfter(work, ok) = <<>>]
                /\ UNCHANGED <<live_networks, live_vlans, pending>>
    /\ UNCHANGED <<run, prev, start, cmd, loaded, columns, excel_data, list_fails, fetch_fails,
                   row_idx, errors, is_valid, vr, groups, res, updated_networks,
                   fetched, exit_status>>

\* Variant: the name enters the mapping before VLANs are enabled
NetworksBeforeEnable(d, net, ok) ==
    [k \in (DOMAIN d) \cup {net.name} |-> IF k = net.name THEN net.id ELSE d[k]]

\* Variant: the mapping returned holds the networks created and no other
NetworksOnlyCreated(d, net, ok) ==
    IF ok THEN [k \in {net.name} |-> net.id] ELSE d

\* create_networks: updated_networks after the call that enables VLANs
NetworksAfterEnable(d, net, ok) ==
    IF ok
    THEN [k \in (DOMAIN d) \cup {net.name} |-> IF k = net.name THEN net.id ELSE d[k]]
    ELSE d

\* create_networks: updateNetworkApplianceVlansSettings for the network created
EnableVlans ==
    /\ pc = "create_networks"
    /\ pending # <<>>
    /\ \E ok \in BOOLEAN :
        /\ calls' = Append(calls, Call("enable_vlan_mode", pending[1].id,
                                       pending[1].name, <<>>, <<>>, 0, ok))
        /\ updated_networks' = NetworksAfterEnable(updated_networks, pending[1], ok)
        /\ tally' = [tally EXCEPT !.created = IF ok THEN @ + 1 ELSE @,
                                  !.failed = IF ok THEN @ ELSE @ + 1,
                                  !.returned = RestAfter(work, ok) = <<>>]
        /\ work' = RestAfter(work, ok)
        /\ pc' = IF RestAfter(work, ok) = <<>> THEN "finish" ELSE pc
    /\ pending' = <<>>
    /\ UNCHANGED <<run, prev, start, cmd, loaded, columns, excel_data, live_networks, live_vlans,
                   list_fails, fetch_fails, row_idx, errors, is_valid, vr, groups,
                   res, fetched, exit_status>>

\* create-vlans up to the first pass of the loops of create_vlans
MainCreateVlans ==
    /\ pc = "main"
    /\ cmd = "create-vlans"
    /\ IF FormatExit
       THEN Exit(1) /\ UNCHANGED <<work, tally>>
       ELSE LET vlans_to_create == FilterStatus(vr.vlan_validation, "missing")
            IN  /\ work' = ByNetwork(vlans_to_create)
                /\ tally' = [tally EXCEPT !.total = Len(vlans_to_create),
                                          !.returned = vlans_to_create = <<>>]
                /\ pc' = IF vlans_to_create = <<>> THEN "finish" ELSE "create_vlans"
                /\ UNCHANGED exit_status
    /\ UNCHANGED <<run, prev, start, cmd, loaded, columns, excel_data, live_networks, live_vlans,
                   list_fails, fetch_fails, row_idx, errors, is_valid, vr, groups,
                   res, updated_networks, pending, calls, fetched>>

\* The rows of excel_data that create_vlans matches to one element of vlans_to_create
vlan_rows(doc, name, vlan_id) ==
    SelectSeq([i \in 1..Len(doc) |-> i],
              LAMBDA i : Key(doc[i].net) = name /\ PyStr(doc[i].vlan_id) = PyStr(vlan_id))

\* Variant: the id is sent as the integer the format check read
CreateVlanIdAsInteger(row) == IntToText(PyInt(row.vlan_id).v)

\* create_vlans: the id of the call, vlan_id = str(vlan_row['VLAN ID'])
CreateVlanId(row) == PyStr(row.vlan_id)

\* create_vlans: one element of vlans_to_create, or the whole group of a
\* network that is not in network_mapping
CreateVlan ==
    /\ pc = "create_vlans"
    /\ work # <<>>
    /\ LET e == Head(work)
           name == e.network_name
           matches == vlan_rows(excel_data, name, e.vlan_id)
           row == excel_data[matches[1]]
       IN  IF name \notin DOMAIN vr.networks
           THEN /\ work' = FilterStatus(FilterNotIn(work, SeqRange(FilterNetwork(work, name))),
                                        "missing")
                /\ tally' = [tally EXCEPT
                                !.failed = @ + Len(FilterNetwork(work, name)),
                                !.returned = Len(FilterNetwork(work, name)) = Len(work)]
                /\ pc' = IF Len(FilterNetwork(work, name)) = Len(work)
                         THEN "finish" ELSE pc
                /\ UNCHANGED <<calls, live_vlans>>
           ELSE IF matches = <<>>
           THEN /\ work' = Tail(work)
                /\ tally' = [tally EXCEPT !.failed = @ + 1,
                                          !.returned = Tail(work) = <<>>]
                /\ pc' = IF Tail(work) = <<>> THEN "finish" ELSE pc
                /\ UNCHANGED <<calls, live_vlans>>
           ELSE \E ok \in BOOLEAN :
                /\ calls' = Append(calls, Call("create_vlan", vr.networks[name], name,
                                               CreateVlanId(row),
                                               Strip(PyStr(row.vlan_name)),
                                               matches[1], ok))
                /\ live_vlans' = IF ok
                                 THEN AfterCreateVlan(live_vlans, vr.networks[name],
                                                      CreateVlanId(row),
                                                      Strip(PyStr(row.vlan_name)))
                                 ELSE live_vlans
                /\ work' = RestAfter(work, ok)
                /\ tally' = [tally EXCEPT !.created = IF ok THEN @ + 1 ELSE @,
                                          !.failed = IF ok THEN @ ELSE @ + 1,
                                          !.returned = RestAfter(work, ok) = <<>>]
                /\ pc' = IF RestAfter(work, ok) = <<>> THEN "finish" ELSE pc
    /\ UNCHANGED <<run, prev, start, cmd, loaded, columns, excel_data, live_networks, list_fails,
                   fetch_fails, row_idx, errors, is_valid, vr, groups, res,
                   updated_networks, pending, fetched, exit_status>>

\* The end of a command that ran its batch: main returns
Finish ==
    /\ pc = "finish"
    /\ Exit(0)
    /\ UNCHANGED <<run, prev, start, cmd, loaded, columns, excel_data, live_networks, live_vlans,
                   list_fails, fetch_fails, row_idx, errors, is_valid, vr, groups,
                   res, work, tally, updated_networks, pending, calls, fetched>>

Next ==
    \/ LoadExcel
    \/ CheckColumns
    \/ CheckRow
    \/ EndRows
    \/ FormatReturn
    \/ ListNetworks
    \/ ReconcileGroup
    \/ Summarize
    \/ Plan
    \/ MainValidate
    \/ MainApply
    \/ ApplyRow
    \/ MainCreateNetworks
    \/ CreateNetwork
    \/ EnableVlans
    \/ MainCreateVlans
    \/ CreateVlan
    \/ Finish

Spec == Init /\ [][Next]_vars

\* The tool is invoked again on the same document: a new process, whose only
\* inheritance is the remote state; any fetch may fail in the new invocation
Rerun ==
    /\ pc = "done"
    /\ run < MaxRuns
    /\ run' = run + 1
    /\ start' = [live_networks |-> live_networks, live_vlans |-> live_vlans]
    /\ prev' = [cmd |-> cmd, vr |-> vr, res |-> res, start |-> start,
                live_networks |-> live_networks,
                live_vlans |-> live_vlans, fetch_fails |-> fetch_fails,
                calls |-> calls, updated_networks |-> updated_networks]
    /\ cmd' \in Commands
    /\ fetch_fails' \in SUBSET LiveIds(live_networks)
    /\ pc' = "load"
    /\ row_idx' = 0
    /\ errors' = <<>>
    /\ is_valid' = FALSE
    /\ vr' = NoResults
    /\ groups' = <<>>
    /\ res' = [success |-> FALSE, actions_needed |-> <<>>, reconciled |-> FALSE]
    /\ work' = <<>>
    /\ tally' = NoTally
    /\ updated_networks' = EmptyDict
    /\ pending' = <<>>
    /\ calls' = <<>>
    /\ fetched' = <<>>
    /\ exit_status' = -1
    /\ UNCHANGED <<loaded, columns, excel_data, live_networks, live_vlans, list_fails>>

NextRerun == Next \/ Rerun

\* The documents and live states of the runs that follow one another
RerunRows ==
    {GoodRow(HQ, IntCell(10), Data), GoodRow(HQ, IntCell(10), Voice),
     GoodRow(HQ, IntCell(20), Data), GoodRow(BR, IntCell(10), Data),
     GoodRow(HQ, FloatCell(100), Data)}

RerunLives ==
    {[networks |-> <<>>, vlans |-> [i \in {1, 2} |-> {}]], DefaultLive,
     [networks |-> <<LiveNet(1, HQ)>>, vlans |-> [i \in {1, 2} |-> {}]]}

RerunInputs ==
    UNION {{Input(c, TRUE, AllColumns, d, l, f.list_fails, f.fetch_fails) :
                c \in Commands, d \in Docs(RerunRows, MaxRows), f \in Failures(l)} :
              l \in RerunLives}

InitRerun == InitFrom(RerunInputs)

\* Two invocations of the tool, one after the other, on one document
SpecRerun == InitRerun /\ [][NextRerun]_vars

InitFormat == InitFrom(FormatInputs)

\* The same program on the documents of the format checks
SpecFormat == InitFormat /\ [][Next]_vars

----------------------------------------------------------------------------
(* Properties *)

\* Reconciliation has classified every row and the remote state is still
\* the one it read
Reconciled == pc = "main" /\ res.reconciled /\ vr.listed

EntryOfRow(i) ==
    CHOOSE e \in SeqRange(vr.vlan_validation) : e.row = i

HasEntry(i) == \E e \in SeqRange(vr.vlan_validation) : e.row = i

\* C1: every update_vlan call of the update path is for a record whose
\* reconciliation status is Existing; a Missing record is never updated.
C1_UpdateOnlyExisting ==
    \A k \in 1..Len(calls) :
        calls[k].op = "update_vlan"
        => /\ HasEntry(calls[k].row)
           /\ EntryOfRow(calls[k].row).status = "existing"

\* A validation error the run leaves unresolved, or an item that failed
RunFailed ==
    \/ \E e \in SeqRange(vr.vlan_validation) : e.status = "validation_error"
    \/ res.reconciled /\ ~vr.listed
    \/ \E k \in 1..Len(calls) : ~calls[k].ok
    \/ tally.failed > 0
    \/ tally.error_count > 0

\* C2: apply-from-excel, create-networks and create-vlans end with a non-zero
\* exit status whenever the run leaves an unresolved validation error or an
\* item of the batch failed.
C2_FailureGivesNonZeroExit ==
    (pc = "done" /\ cmd \in {"apply-from-excel", "create-networks", "create-vlans"}
     /\ RunFailed)
    => exit_status # 0

\* The live network a row's name matches, if any
LiveMatches(row) == {i \in 1..Len(live_networks) : live_networks[i].name = Key(row.net)}

\* The status of a row when every fetch succeeds, from the live state alone
StatusWithoutFailure(row) ==
    IF LiveMatches(row) = {} THEN "network_missing"
    ELSE LET id == NetworkMap(live_networks)[Key(row.net)]
         IN  IF \E v \in live_vlans[id] : PyStr(v.id) = PyStr(row.vlan_id)
             THEN "existing" ELSE "missing"

FetchFailsFor(row) ==
    /\ LiveMatches(row) # {}
    /\ NetworkMap(live_networks)[Key(row.net)] \in fetch_fails

\* C3: when the VLAN fetch of a network fails, its records are marked
\* validation_error, the records of every other network get the status they
\* get without the failure, and the run goes on to classify every record.
C3_FetchFailureIsolated ==
    Reconciled
    => \A i \in 1..Len(excel_data) :
          /\ Cardinality({j \in 1..Len(vr.vlan_validation) :
                             vr.vlan_validation[j].row = i}) = 1
          /\ IF FetchFailsFor(excel_data[i])
             THEN EntryOfRow(i).status = "validation_error"
             ELSE EntryOfRow(i).status = StatusWithoutFailure(excel_data[i])

C3_Witness ==
    /\ Reconciled
    /\ \E i, j \in 1..Len(excel_data) :
          /\ FetchFailsFor(excel_data[i])
          /\ EntryOfRow(i).status = "validation_error"
          /\ ~FetchFailsFor(excel_data[j])
          /\ EntryOfRow(j).status \in {"existing", "missing"}

\* C4: a record is network_missing iff its network name equals no live
\* network name exactly; otherwise, when the fetch of its network succeeds,
\* it is existing iff its stringified VLAN id equals the stringified id of a
\* live VLAN of that network, and missing otherwise.
C4_Classification ==
    Reconciled
    => \A i \in 1..Len(excel_data) :
          LET row == excel_data[i]
              same == {n \in SeqRange(live_networks) : n.name = row.net.s}
              ids == {PyStr(v.id) : v \in UNION {live_vlans[n.id] : n \in same}}
          IN  /\ HasEntry(i)
              /\ EntryOfRow(i).status = "network_missing" <=> same = {}
              /\ (same # {} /\ \A n \in same : n.id \notin fetch_fails)
                 => /\ EntryOfRow(i).status = "existing" <=> PyStr(row.vlan_id) \in ids
                    /\ EntryOfRow(i).status = "missing" <=> PyStr(row.vlan_id) \notin ids

C4_Witness ==
    /\ Reconciled
    /\ \E i, j \in 1..Len(excel_data) :
          /\ EntryOfRow(i).status = "network_missing"
          /\ EntryOfRow(j).status = "existing"

\* The elements of vlan_validation with status missing
MissingEntries == FilterStatus(vr.vlan_validation, "missing")

CountCalls(op, name, vlan) ==
    Cardinality({k \in 1..Len(calls) :
                    /\ calls[k].op = op
                    /\ calls[k].net_name = name
                    /\ calls[k].vlan = vlan})

\* C5: a failed item never ends the batch. When create_vlans has returned,
\* created + failed = total, total is the number of missing records and each
\* of them was attempted once; when apply_excel_data has returned, every row
\* was attempted once and counted.
C5_BatchNeverAborted ==
    /\ (cmd = "create-vlans" /\ tally.returned)
       => /\ tally.created + tally.failed = tally.total
          /\ tally.total = Len(MissingEntries)
          /\ Cardinality({k \in 1..Len(calls) : calls[k].op = "create_vlan"})
                 = Len(MissingEntries)
          /\ \A e \in SeqRange(MissingEntries) :
                 CountCalls("create_vlan", e.network_name, PyStr(e.vlan_id))
                 = Cardinality({j \in 1..Len(MissingEntries) :
                                   /\ MissingEntries[j].network_name = e.network_name
                                   /\ MissingEntries[j].vlan_id = e.vlan_id})
    /\ (cmd = "apply-from-excel" /\ tally.returned /\ DOMAIN vr.networks # {})
       => /\ tally.success_count + tally.error_count = Len(excel_data)
          /\ \A i \in 1..Len(excel_data) :
                 Cardinality({k \in 1..Len(calls) :
                                 calls[k].op = "update_vlan" /\ calls[k].row = i}) = 1

C5_Witness ==
    /\ cmd = "create-vlans"
    /\ tally.returned
    /\ Len(calls) = 2
    /\ ~calls[1].ok
    /\ calls[2].ok
    /\ tally.created = 1
    /\ tally.failed = 1

\* C6: the verdict of validate_excel is true iff a desired network name
\* resolved to a live id, no record is validation_error and no record is
\* network_missing; missing records do not count.
C6_ReadyToApply ==
    (pc = "main" /\ res.reconciled)
    => (res.success
        <=> /\ \E i \in 1..Len(excel_data) : Key(excel_data[i].net) \in DOMAIN vr.networks
            /\ \A e \in SeqRange(vr.vlan_validation) :
                   e.status \notin {"validation_error", "network_missing"})

C6_Witness ==
    /\ pc = "main"
    /\ res.reconciled
    /\ res.success
    /\ \E e \in SeqRange(vr.vlan_validation) : e.status = "missing"

\* The format checks have run on every row
FormatChecked ==
    /\ loaded
    /\ missing_columns(columns) = <<>>
    /\ pc \notin {"load", "columns", "rows"}

ErrorsOfRow(i) == SelectSeq(errors, LAMBDA e : e.row = i + RowOffset - 1)

KindsOfRow(i) == {ErrorsOfRow(i)[k].kind : k \in 1..Len(ErrorsOfRow(i))}

\* The cell denotes an integer of 1..4094
DenotesVlanId(c) ==
    CASE c.t = "int" -> c.n >= MinVlanId /\ c.n <= MaxVlanId
      [] c.t = "float" -> c.n % 10 = 0 /\ c.n >= 10 * MinVlanId /\ c.n <= 10 * MaxVlanId
      [] c.t = "str" -> /\ IntOfText(c.s).ok
                        /\ IntOfText(c.s).v >= MinVlanId
                        /\ IntOfText(c.s).v <= MaxVlanId
      [] OTHER -> FALSE

\* C7: a VLAN ID error is reported for a row iff its value does not denote
\* an integer of 1..4094; in particular for every fractional value.
C7_VlanIdAcceptedIffInteger ==
    FormatChecked
    => \A i \in 1..Len(excel_data) :
          (KindsOfRow(i) \cap {"VlanIdOutOfRange", "VlanIdNotInteger"} = {})
          <=> DenotesVlanId(excel_data[i].vlan_id)

\* An address as a number
AddrValue(o) == ((o[1] * 256 + o[2]) * 256 + o[3]) * 256 + o[4]

\* The first and the last address of the subnet a.b.c.d/p, for p >= 2
FirstAddress(c) == AddrValue(c.o) - (AddrValue(c.o) % (2 ^ (32 - c.p)))
LastAddress(c) == FirstAddress(c) + 2 ^ (32 - c.p) - 1

\* C8: for a row whose subnet and gateway parse, a membership error is
\* reported iff the gateway lies outside [network address, broadcast address].
C8_MembershipIffInRange ==
    FormatChecked
    => \A i \in 1..Len(excel_data) :
          LET row == excel_data[i]
          IN  (IPv4Network(row.subnet).ok /\ IPv4Address(row.mx_ip).ok)
              => ("MxIpNotInSubnet" \in KindsOfRow(i)
                  <=> \/ AddrValue(row.mx_ip.o) < FirstAddress(row.subnet)
                      \/ AddrValue(row.mx_ip.o) > LastAddress(row.subnet))

C8_Witness ==
    /\ FormatChecked
    /\ \E i, j \in 1..Len(excel_data) :
          /\ excel_data[i].subnet.p = 24
          /\ AddrValue(excel_data[i].mx_ip.o) = LastAddress(excel_data[i].subnet)
          /\ KindsOfRow(i) = {}
          /\ excel_data[j].subnet.p = 31
          /\ IPv4Address(excel_data[j].mx_ip).ok
          /\ AddrValue(excel_data[j].mx_ip.o) = LastAddress(excel_data[j].subnet) + 1
          /\ KindsOfRow(j) = {"MxIpNotInSubnet"}

RECURSIVE AllRowErrors(_, _)
\* The errors of the first n rows, row after row
AllRowErrors(doc, n) ==
    IF n = 0 THEN <<>>
    ELSE AllRowErrors(doc, n - 1) \o RowErrors(doc[n], n + RowOffset - 1)

\* C9: with the five columns present every row is checked whatever the
\* errors of the rows before it: the errors are the rows' own errors in row
\* order, equal rows get equal errors, and the result is valid iff there is
\* no error.
C9_RowsIndependent ==
    FormatChecked
    => /\ errors = AllRowErrors(excel_data, Len(excel_data))
       /\ \A i, j \in 1..Len(excel_data) :
              excel_data[i] = excel_data[j]
              => [k \in 1..Len(ErrorsOfRow(i)) |-> ErrorsOfRow(i)[k].kind]
                 = [k \in 1..Len(ErrorsOfRow(j)) |-> ErrorsOfRow(j)[k].kind]
       /\ \A k \in 1..(Len(errors) - 1) : errors[k].row <= errors[k + 1].row
       /\ is_valid <=> errors = <<>>

C9_Witness ==
    /\ FormatChecked
    /\ Len(excel_data) = 2
    /\ Len(ErrorsOfRow(1)) > 1
    /\ ErrorsOfRow(2) # <<>>
    /\ ~is_valid

\* C10: with a required column absent the result is invalid with exactly one
\* error, the list of the missing columns, and no row is checked.
C10_MissingColumnsOneError ==
    (loaded /\ missing_columns(columns) # <<>> /\ pc \notin {"load", "columns"})
    => /\ ~is_valid
       /\ Len(errors) = 1
       /\ errors[1].kind = "MissingColumns"
       /\ errors[1].cols = missing_columns(columns)
       /\ row_idx = 0
       /\ pc \in {"format_return", "main", "done"}
       /\ pc \in {"main", "done"} => res.actions_needed = <<"fix_excel_format">>

C10_Witness ==
    /\ loaded
    /\ Cardinality(AllColumns \ columns) = 2
    /\ pc = "main"
    /\ Len(excel_data) = 1
    /\ RowErrors(excel_data[1], RowOffset) # <<>>
    /\ Len(errors) = 1

----------------------------------------------------------------------------
(* create_networks *)

CallsOf(op) == SelectSeq(calls, LAMBDA c : c.op = op)

\* The row where a network name first appears in the document
FirstRow(name) ==
    CHOOSE i \in 1..Len(excel_data) :
        /\ Key(excel_data[i].net) = name
        /\ \A j \in 1..(i - 1) : Key(excel_data[j].net) # name

\* The names of the document that are not in the mapping create_networks gets
AbsentNames == SeqRange(NetworkNames(excel_data)) \ DOMAIN vr.networks

\* C11: create_networks issues one create_network call per distinct name of
\* the document that is absent from the existing-network mapping, in order of
\* first appearance; a failed creation changes neither the later names nor
\* their order.
C11_OneCreatePerAbsentName ==
    LET cs == CallsOf("create_network")
    IN  cmd = "create-networks"
        => /\ \A k \in 1..Len(cs) : cs[k].net_name \in AbsentNames
           /\ \A k, l \in 1..Len(cs) :
                  k < l => FirstRow(cs[k].net_name) < FirstRow(cs[l].net_name)
           /\ \A n \in AbsentNames :
                  \/ \E k \in 1..Len(cs) : cs[k].net_name = n
                  \/ /\ ~tally.returned
                     /\ \A k \in 1..Len(cs) : FirstRow(cs[k].net_name) < FirstRow(n)

C11_Witness ==
    LET cs == CallsOf("create_network")
    IN  /\ cmd = "create-networks"
        /\ tally.returned
        /\ Len(cs) = 2
        /\ ~cs[1].ok
        /\ cs[2].ok
        /\ TextLess(cs[2].net_name, cs[1].net_name)

\* C12: enable_vlan_mode is called only right after the create_network call
\* of the same network succeeded, with the id that call returned, and never
\* for a creation that failed; a name enters the returned mapping only once
\* both calls succeeded.
C12_EnableOnlyAfterCreate ==
    /\ \A k \in 1..Len(calls) :
          calls[k].op = "enable_vlan_mode"
          => /\ k > 1
             /\ calls[k - 1].op = "create_network"
             /\ calls[k - 1].ok
             /\ calls[k - 1].net_name = calls[k].net_name
             /\ calls[k - 1].net_id = calls[k].net_id
    /\ \A k, l \in 1..Len(calls) :
          calls[k].op = "create_network" /\ ~calls[k].ok /\ calls[l].op = "enable_vlan_mode"
          => calls[l].net_name # calls[k].net_name
    /\ cmd = "create-networks"
       => \A n \in (DOMAIN updated_networks) \ (DOMAIN vr.networks) :
             \E k \in 1..(Len(calls) - 1) :
                /\ calls[k].op = "create_network" /\ calls[k].ok
                /\ calls[k].net_name = n
                /\ calls[k + 1].op = "enable_vlan_mode" /\ calls[k + 1].ok
                /\ calls[k + 1].net_name = n
                /\ updated_networks[n] = calls[k].net_id

C12_Witness ==
    /\ cmd = "create-networks"
    /\ tally.returned
    /\ Len(calls) = 4
    /\ calls[1].ok /\ ~calls[2].ok
    /\ calls[3].ok /\ calls[4].ok
    /\ calls[1].net_name \notin DOMAIN updated_networks
    /\ calls[3].net_name \in DOMAIN updated_networks

----------------------------------------------------------------------------
(* The gates before the remote calls *)

\* C16: once format validation has reported an error, reconciliation is not
\* reached: no listing, no fetch of VLANs and no create_network,
\* enable_vlan_mode, create_vlan or update_vlan call, whatever the command.
C16_FormatErrorsStopEverything ==
    errors # <<>>
    => /\ pc \in {"rows", "format_return", "main", "done"}
       /\ ~vr.listed
       /\ ~res.reconciled
       /\ fetched = <<>>
       /\ calls = <<>>

C16_Witness ==
    /\ pc = "done"
    /\ cmd = "create-vlans"
    /\ Len(excel_data) = 2
    /\ Len(errors) = 1
    /\ \E i \in 1..Len(excel_data) :
          /\ LiveMatches(excel_data[i]) # {}
          /\ StatusWithoutFailure(excel_data[i]) = "missing"
          /\ \A k \in 1..Len(errors) : errors[k].row # i + RowOffset
    /\ calls = <<>>
    /\ fetched = <<>>

\* C17: apply-from-excel calls update_vlan only in a run whose validation
\* verdict is true; with a record that is network_missing or
\* validation_error, or with no network of the document resolved (the listing
\* failed, the document is empty), there is no update_vlan call.
C17_ApplyOnlyWhenReady ==
    cmd = "apply-from-excel"
    => /\ CallsOf("update_vlan") # <<>> => res.success
       /\ \/ \E e \in SeqRange(vr.vlan_validation) :
                e.status \in {"network_missing", "validation_error"}
          \/ DOMAIN vr.networks = {}
          => CallsOf("update_vlan") = <<>>

C17_Witness ==
    /\ cmd = "apply-from-excel"
    /\ pc = "done"
    /\ res.reconciled
    /\ vr.listed
    /\ \E e \in SeqRange(vr.vlan_validation) : e.status = "validation_error"
    /\ \E e \in SeqRange(vr.vlan_validation) : e.status = "existing"
    /\ calls = <<>>

\* C18: in a create-networks run, create_network is issued only for a name
\* that no live network of the organization bears at the time of the call,
\* also when the listing call fails: the only live network with the name of
\* a call is the one that call created.
C18_CreateOnlyAbsentFromLive ==
    cmd = "create-networks"
    => \A k \in 1..Len(calls) :
          calls[k].op = "create_network"
          => \A i \in 1..Len(live_networks) :
                live_networks[i].name = calls[k].net_name
                => calls[k].ok /\ live_networks[i].id = calls[k].net_id

----------------------------------------------------------------------------
(* create_vlans *)

\* C19: every create_vlan call for a Missing record carries the VLAN name,
\* subnet and gateway of that same record of the document, also when two rows
\* share network name and VLAN id: the k-th call of the run takes its details
\* from the row of the k-th record create_vlans visits.
C19_CreateCarriesOwnRecord ==
    LET cs == CallsOf("create_vlan")
        todo == ByNetwork(MissingEntries)
    IN  cmd = "create-vlans"
        => \A k \in 1..Len(cs) :
              /\ k <= Len(todo)
              /\ LET own == excel_data[todo[k].row]
                     source == excel_data[cs[k].row]
                 IN  /\ cs[k].vlan_name = Strip(PyStr(own.vlan_name))
                     /\ source.subnet = own.subnet
                     /\ source.mx_ip = own.mx_ip

----------------------------------------------------------------------------
(* validate_excel_data: the result as a whole *)

Statuses == {"existing", "missing", "network_missing", "validation_error"}

\* C20: when the listing call succeeds, validate_excel_data returns one
\* entry of vlan_validation per record, with one of the four statuses,
\* whichever fetches fail; vlans_valid + vlans_invalid = total_vlans,
\* networks_found + networks_missing = total_networks, and vlans_valid is the
\* number of existing entries.
C20_ResultIsComplete ==
    pc \notin {"load", "columns", "rows", "format_return", "list", "group"} /\ vr.listed
    => /\ Len(vr.vlan_validation) = Len(excel_data)
       /\ \A i \in 1..Len(excel_data) :
              Cardinality({k \in 1..Len(vr.vlan_validation) :
                              vr.vlan_validation[k].row = i}) = 1
       /\ \A k \in 1..Len(vr.vlan_validation) : vr.vlan_validation[k].status \in Statuses
       /\ vr.summary.vlans_valid + vr.summary.vlans_invalid = vr.summary.total_vlans
       /\ vr.summary.total_vlans = Len(excel_data)
       /\ vr.summary.networks_found + vr.summary.networks_missing
              = vr.summary.total_networks
       /\ vr.summary.total_networks = Cardinality(SeqRange(NetworkNames(excel_data)))
       /\ vr.summary.vlans_valid = CountStatus(vr.vlan_validation, "existing")

C20_Witness ==
    /\ pc = "main"
    /\ vr.listed
    /\ fetch_fails # {}
    /\ CountStatus(vr.vlan_validation, "validation_error") = 1
    /\ CountStatus(vr.vlan_validation, "existing") = 1
    /\ vr.summary.vlans_valid = 1
    /\ vr.summary.vlans_invalid = 1
    /\ vr.summary.networks_found = 2

----------------------------------------------------------------------------
(* One invocation after the other *)

LiveNames(nets) == {nets[i].name : i \in 1..Len(nets)}

RowsLike(i) ==
    {j \in 1..Len(excel_data) :
        /\ Key(excel_data[j].net) = Key(excel_data[i].net)
        /\ PyStr(excel_data[j].vlan_id) = PyStr(excel_data[i].vlan_id)}

\* C13: a record whose network name has no live match is network_missing
\* and the plan names create_networks once; create_networks issues one
\* create_network call for that name; once the network exists, the next
\* create-vlans run issues one create_vlan call for the VLAN id of the
\* record; and no create_vlan call is for a network that does not exist.
C13_NetworkFirstThenVlan ==
    /\ pc = "main" /\ res.reconciled /\ vr.listed
       => \A i \in 1..Len(excel_data) :
             LiveMatches(excel_data[i]) = {}
             => /\ HasEntry(i)
                /\ EntryOfRow(i).status = "network_missing"
                /\ Cardinality({k \in 1..Len(res.actions_needed) :
                                   res.actions_needed[k] = "create_networks"}) = 1
    /\ cmd = "create-networks" /\ tally.returned /\ vr.listed
       => \A e \in SeqRange(vr.vlan_validation) :
             e.status = "network_missing"
             => Cardinality({k \in 1..Len(calls) :
                                /\ calls[k].op = "create_network"
                                /\ calls[k].net_name = e.network_name}) = 1
    /\ run > 1 /\ cmd = "create-vlans" /\ tally.returned /\ vr.listed
       => \A i \in 1..Len(excel_data) :
             LET n == Key(excel_data[i].net)
             IN  /\ n \notin LiveNames(prev.start.live_networks)
                 /\ n \in DOMAIN vr.networks
                 /\ vr.networks[n] \notin fetch_fails
                 => Cardinality({k \in 1..Len(calls) :
                                    /\ calls[k].op = "create_vlan"
                                    /\ calls[k].net_id = vr.networks[n]
                                    /\ calls[k].net_name = n
                                    /\ calls[k].vlan = PyStr(excel_data[i].vlan_id)})
                        = Cardinality(RowsLike(i))
    /\ \A k \in 1..Len(calls) :
          calls[k].op = "create_vlan"
          => \E j \in 1..Len(live_networks) :
                /\ live_networks[j].id = calls[k].net_id
                /\ live_networks[j].name = calls[k].net_name

C13_Witness ==
    /\ run > 1
    /\ cmd = "create-vlans"
    /\ tally.returned
    /\ prev.cmd = "create-networks"
    /\ \E k \in 1..Len(prev.calls) : prev.calls[k].op = "create_network" /\ prev.calls[k].ok
    /\ \E k \in 1..Len(calls) :
          /\ calls[k].op = "create_vlan"
          /\ calls[k].net_name \notin LiveNames(prev.start.live_networks)
          /\ \E e \in SeqRange(prev.vr.vlan_validation) :
                /\ e.status = "network_missing"
                /\ e.network_name = calls[k].net_name

C15_CreatedIsExisting ==
    /\ run > 1
    /\ pc = "main"
    /\ res.reconciled
    /\ vr.listed
    /\ prev.cmd = "create-vlans"
    /\ \A k \in 1..Len(prev.calls) : prev.calls[k].ok
    => \A e \in SeqRange(prev.vr.vlan_validation) :
          e.status = "missing" /\ prev.vr.networks[e.network_name] \notin fetch_fails
          => /\ HasEntry(e.row)
             /\ EntryOfRow(e.row).status = "existing"

C15_Witness ==
    /\ run > 1
    /\ pc = "main"
    /\ res.reconciled
    /\ vr.listed
    /\ prev.cmd = "create-vlans"
    /\ Len(prev.calls) = 2
    /\ \A k \in 1..Len(prev.calls) : prev.calls[k].ok
    /\ CountStatus(prev.vr.vlan_validation, "missing") = 2
    /\ CountStatus(vr.vlan_validation, "existing") = 2

----------------------------------------------------------------------------
(* What each stage leaves alone *)

OpsOfCalls == {calls[k].op : k \in 1..Len(calls)}

VlanIdsOf(vlans) == [i \in DOMAIN vlans |-> {PyStr(v.id) : v \in vlans[i]}]

\* C21: each stage changes only its own part of the remote state.
\* validate_excel issues no mutating call; create_networks issues no
\* create_vlan or update_vlan call; create_vlans issues no create_network,
\* enable_vlan_mode or update_vlan call; apply_excel_data issues only
\* update_vlan calls; and the mapping create_networks returns holds every
\* entry of the mapping it was given, unchanged.
C21_StagesKeepToTheirPart ==
    /\ pc \in {"load", "columns", "rows", "format_return", "list", "group", "plan", "main"}
       => /\ calls = <<>>
          /\ live_networks = start.live_networks
          /\ live_vlans = start.live_vlans
    /\ cmd = "validate-excel"
       => /\ calls = <<>>
          /\ live_networks = start.live_networks
          /\ live_vlans = start.live_vlans
    /\ cmd = "create-networks"
       => /\ OpsOfCalls \subseteq {"create_network", "enable_vlan_mode"}
          /\ \A i \in DOMAIN start.live_vlans : live_vlans[i] = start.live_vlans[i]
          /\ SubSeq(live_networks, 1, Len(start.live_networks)) = start.live_networks
          /\ tally.returned
             => \A n \in DOMAIN vr.networks :
                   /\ n \in DOMAIN updated_networks
                   /\ updated_networks[n] = vr.networks[n]
    /\ cmd = "create-vlans"
       => /\ OpsOfCalls \subseteq {"create_vlan"}
          /\ live_networks = start.live_networks
    /\ cmd = "apply-from-excel"
       => /\ OpsOfCalls \subseteq {"update_vlan"}
          /\ live_networks = start.live_networks
          /\ VlanIdsOf(live_vlans) = VlanIdsOf(start.live_vlans)

C21_Witness ==
    /\ cmd = "create-networks"
    /\ tally.returned
    /\ DOMAIN vr.networks # {}
    /\ \E n \in DOMAIN updated_networks : n \notin DOMAIN vr.networks
    /\ \E i \in DOMAIN start.live_vlans : start.live_vlans[i] # {}

====
